---- MODULE Spec2Model ----
(***************************************************************************)
(* Ripple-Down Rules engine of RDR-for-Psychology.                         *)
(*                                                                         *)
(* Three programs drive the same tree of Node/Vertex/Rule objects:         *)
(*   "file"    src/rdr_engine.py      console engine, cornerstone = paths  *)
(*   "summary" src/app/rdr_engine.py  console engine, cornerstone = summary*)
(*   "app"     src/app/app.py         Streamlit front end on the summary   *)
(*                                    engine's classes                     *)
(* A behaviour is a run of one of them (variable program), in a directory  *)
(* holding the transcripts of variable files, with a clinician who types   *)
(* the conclusions of variable answers.                                    *)
(*                                                                         *)
(* Node objects are numbered 1..MaxNodes in the order Node(...) is called; *)
(* 0 is Python's None.  Object identity is the number.                     *)
(***************************************************************************)
EXTENDS Integers, Sequences, FiniteSets, TLC

\* ---------------------------------------------------------------- bounds
MaxNodes == 3      \* Node objects created in one run
MaxData  == 2      \* length of a vertex's cornerstone path list
MaxSel   == 2      \* length of selected_conditions
MaxChunks == 3     \* pieces an oracle reply text is put together from
MaxSessionNodes == 2   \* size of the tree up to which a session reads cases

\* ------------------------------------------------------- input alphabets
Programs == {"file", "summary", "app"}

\* the two console programs, whose main loop calls RDREngine.revise
EnginePrograms == {"file", "summary"}

\* transcript files there can be (main() and the app take only paths for
\* which os.path.exists holds)
Cases == {"a.json", "b.json"}

\* what the clinician can type as the correct conclusion
Conclusions == {"", "Flu"}

\* candidate lists llm_get_differentiating_conditions can return
\* (<<>> is also what every failure of it returns)
CandidateLists == {<<>>, <<"fever">>}

\* what the clinician can type as a manual condition, after .strip()
ManualEntries == {"", "fever"}

\* tokens of a selection line after split(',') and strip(): integers, or
\* text int() rejects
Tokens == {[isInt |-> TRUE, val |-> -1], [isInt |-> TRUE, val |-> 0],
           [isInt |-> TRUE, val |-> 1], [isInt |-> TRUE, val |-> 2],
           [isInt |-> TRUE, val |-> 3], [isInt |-> FALSE, val |-> 0]}

\* selection lines that are neither 'd' nor 'm': one or two tokens
NumberLines == {<<t>> : t \in Tokens} \cup {<<t, u>> : t \in Tokens, u \in Tokens}

NodeIds == 1..MaxNodes
None == 0

\* no line read yet
NoChoice == [kind |-> "none", entry |-> "", tokens |-> <<>>]

VARIABLES
    program,            \* which of the three programs runs
    files,              \* the transcript files that exist in this run
    answers,            \* the conclusions the clinician of this run types
    root,               \* RDREngine.root
    left, right,        \* Node.left, Node.right of every Node object
    conditions,         \* Node.vertex.rule.conditions, a JSON array text
    conclusions,        \* Node.vertex.rule.conclusions
    data,               \* Node.vertex.data     (file engine: list of paths)
    summary,            \* Node.vertex.summary  (summary engine and app)
    nNodes,             \* Node objects created so far
    result,             \* (n1, n2) of the latest interpret
    calls,              \* llm_check_condition calls of the latest interpret
    current_summary,    \* st.session_state.current_summary
    diff_conditions,    \* st.session_state.diff_conditions
    show_revision_form, \* st.session_state.show_revision_form
    lastOp,             \* what the latest operation did
    reference,          \* the reference case the latest differentiate call was given
    merge_outcome,      \* how its llm_merge_summaries call ended, if it made one
    \* RDREngine.revise followed line by line (SpecRevise); at rest elsewhere
    pc,                     \* where that revise stands
    transcript_path,        \* its argument
    new_patient_summary,    \* summary engine: llm_generate_summary's result
    new_concl,              \* the conclusion typed
    conditions_list,        \* llm_get_differentiating_conditions' result
    selected_conditions,    \* the list the selection loop is filling
    choice_str,             \* the line that loop read last
    \* the oracle functions of src/llm_api.py taken alone
    check_call,         \* what one llm_check_condition call meets
    check_result,       \* what that call handed back
    diff_reply,         \* what the latest llm_get_differentiating_conditions met
    \* persistence and the programs' outer loop (SpecSession)
    disk,               \* how this run treats the storage file: "unwatched",
                        \* "failing", "sound"
    storage,            \* the storage file rdr_tree.pkl
    main_pc             \* where main() / the Streamlit session stands

tree == <<root, left, right>>
rules == <<conditions, conclusions>>
session == <<current_summary, diff_conditions, show_revision_form>>
locals == <<pc, transcript_path, new_patient_summary, new_concl, conditions_list,
            selected_conditions, choice_str>>
vars == <<program, files, answers, root, left, right, conditions, conclusions,
          data, summary,
          nNodes, result, calls, current_summary, diff_conditions,
          show_revision_form, lastOp, reference, merge_outcome, pc, transcript_path, new_patient_summary,
          new_concl, conditions_list, selected_conditions, choice_str,
          check_call, check_result, diff_reply, disk, storage, main_pc>>
oracle == <<check_call, check_result, diff_reply>>
persist == <<storage, main_pc>>

\* ------------------------------------------------------------ the oracle
\* llm_check_condition: the model's reply, or the failure that replaced it.
\* "FAILED" stands for every path that is not a clean TRUE/FALSE reply: the
\* case cannot be read, the API call raises, the reply is some other text.
CheckOutcomes == {"TRUE", "FALSE", "FAILED"}

LlmCheckCondition(outcome) ==
    outcome = "TRUE"

\* The reply text inside one call, character by character.  Texts are put
\* together from pieces: blanks, periods, the word TRUE in halves and in
\* lower case, the word FALSE, some other word.
Chunks == {<<" ">>, <<".">>, <<"T", "R">>, <<"U", "E">>, <<"t", "r", "u", "e">>,
           <<"F", "A", "L", "S", "E">>, <<"N", "o">>}

RECURSIVE TextsOf(_)
TextsOf(n) ==
    IF n = 0 THEN {<<>>}
    ELSE LET shorter == TextsOf(n - 1)
         IN shorter \cup {t \o c : t \in shorter, c \in Chunks}

ReplyTexts == TextsOf(MaxChunks)

\* str.strip(): blanks off both ends
RECURSIVE LStrip(_)
LStrip(text) ==
    IF text # <<>> /\ Head(text) = " " THEN LStrip(Tail(text)) ELSE text

RECURSIVE RStrip(_)
RStrip(text) ==
    IF text # <<>> /\ text[Len(text)] = " "
    THEN RStrip(SubSeq(text, 1, Len(text) - 1))
    ELSE text

Strip(text) == RStrip(LStrip(text))

\* str.upper()
UpperChar(c) ==
    CASE c = "t" -> "T" [] c = "r" -> "R" [] c = "u" -> "U" [] c = "e" -> "E"
      [] c = "o" -> "O" [] OTHER -> c

Upper(text) == [i \in 1..Len(text) |-> UpperChar(text[i])]

\* str.replace(".", "")
RemovePeriods(text) ==
    LET notPeriod(c) == c # "."
    IN SelectSeq(text, notPeriod)

\* variant: the periods are removed before the blanks are stripped
TextResponseStripsLast(text) == Strip(RemovePeriods(Upper(text)))

\* text_response = response.text.strip().upper().replace(".", "")
TextResponse(text) == RemovePeriods(Upper(Strip(text)))

\* what a call can meet: a case file that cannot be read, an API call that
\* raises, or a reply text
CheckCalls ==
    {[readable |-> FALSE, raised |-> FALSE, text |-> <<>>],
     [readable |-> TRUE, raised |-> TRUE, text |-> <<>>]}
    \cup {[readable |-> TRUE, raised |-> FALSE, text |-> t] : t \in ReplyTexts}

\* which of the function's paths the call takes
CheckOutcome(call) ==
    IF ~call.readable \/ call.raised THEN "FAILED"
    ELSE IF TextResponse(call.text) = <<"T", "R", "U", "E">> THEN "TRUE"
    ELSE IF TextResponse(call.text) = <<"F", "A", "L", "S", "E">> THEN "FALSE"
    ELSE "FAILED"

\* no call under way, nothing handed back
NoCheck == [readable |-> TRUE, raised |-> FALSE, text |-> <<>>]
NotReturned == [returned |-> FALSE, raised |-> FALSE, value |-> FALSE]

\* no llm_get_differentiating_conditions call in the latest operation
NoReply == [readable |-> FALSE, raised |-> TRUE, text |-> <<>>]

\* ------------------------------------------------------------- interpret
\* The while loop of interpret, over every outcome the oracle can have at
\* each visited node: cur is current_node, tried/true are last_tried_node/
\* last_true_node, log the llm_check_condition calls made so far (the node
\* and the value returned), outs what happened inside each of those calls.
\* Yields the set of possible returns; interpret hands back n1 and n2 only.
RECURSIVE Walk(_, _, _, _, _)

\* variant: descends to the left child on true and to the right on false
WalkBranchesSwapped(cur, tried, true, log, outs) ==
    IF cur = None
    THEN {[n1 |-> tried, n2 |-> true, calls |-> log, outcomes |-> outs]}
    ELSE UNION {IF LlmCheckCondition(outcome)
                THEN Walk(left[cur], cur, cur, Append(log, <<cur, TRUE>>),
                          Append(outs, outcome))
                ELSE Walk(right[cur], cur, true, Append(log, <<cur, FALSE>>),
                          Append(outs, outcome))
                : outcome \in CheckOutcomes}

\* variant: the loop tests current_node after the oracle call, so the
\* oracle is asked about the absent node too (and fails to False)
WalkTestsAfterCall(cur, tried, true, log, outs) ==
    IF cur = None
    THEN {[n1 |-> tried, n2 |-> true, calls |-> Append(log, <<cur, FALSE>>),
           outcomes |-> Append(outs, "FAILED")]}
    ELSE UNION {IF LlmCheckCondition(outcome)
                THEN Walk(right[cur], cur, cur, Append(log, <<cur, TRUE>>),
                          Append(outs, outcome))
                ELSE Walk(left[cur], cur, true, Append(log, <<cur, FALSE>>),
                          Append(outs, outcome))
                : outcome \in CheckOutcomes}

\* variant: a failed evaluation is tried once more on the same node before
\* the loop moves on
WalkRetriesFailure(cur, tried, true, log, outs) ==
    IF cur = None
    THEN {[n1 |-> tried, n2 |-> true, calls |-> log, outcomes |-> outs]}
    ELSE UNION {IF LlmCheckCondition(outcome)
                THEN Walk(right[cur], cur, cur, Append(log, <<cur, TRUE>>),
                          Append(outs, outcome))
                ELSE IF outcome = "FAILED"
                THEN Walk(left[cur], cur, true,
                          log \o <<<<cur, FALSE>>, <<cur, FALSE>>>>,
                          outs \o <<outcome, outcome>>)
                ELSE Walk(left[cur], cur, true, Append(log, <<cur, FALSE>>),
                          Append(outs, outcome))
                : outcome \in CheckOutcomes}

\* variant: a failed evaluation sends the loop down either branch
WalkGuessesOnFailure(cur, tried, true, log, outs) ==
    IF cur = None
    THEN {[n1 |-> tried, n2 |-> true, calls |-> log, outcomes |-> outs]}
    ELSE UNION {IF LlmCheckCondition(outcome)
                THEN Walk(right[cur], cur, cur, Append(log, <<cur, TRUE>>),
                          Append(outs, outcome))
                ELSE IF outcome = "FAILED"
                THEN Walk(left[cur], cur, true, Append(log, <<cur, FALSE>>),
                          Append(outs, outcome))
                     \cup Walk(right[cur], cur, cur, Append(log, <<cur, FALSE>>),
                               Append(outs, outcome))
                ELSE Walk(left[cur], cur, true, Append(log, <<cur, FALSE>>),
                          Append(outs, outcome))
                : outcome \in CheckOutcomes}

Walk(cur, tried, true, log, outs) ==
    IF cur = None
    THEN {[n1 |-> tried, n2 |-> true, calls |-> log, outcomes |-> outs]}
    ELSE UNION {IF LlmCheckCondition(outcome)
                THEN Walk(right[cur], cur, cur, Append(log, <<cur, TRUE>>),
                          Append(outs, outcome))
                ELSE Walk(left[cur], cur, true, Append(log, <<cur, FALSE>>),
                          Append(outs, outcome))
                : outcome \in CheckOutcomes}

Interpret == Walk(root, None, None, <<>>, <<>>)

\* what the callers of interpret can observe of it: the pair returned and
\* the oracle calls made
InterpretRuns ==
    {[n1 |-> r.n1, n2 |-> r.n2, calls |-> r.calls] : r \in Interpret}

\* ------------------------------------------------- condition selection
Range(s) == {s[i] : i \in 1..Len(s)}

\* "if x not in selected_conditions: selected_conditions.append(x)"
\* (a list that already holds MaxSel entries takes no more)
AppendNew(sel, x) ==
    IF x \in Range(sel) \/ Len(sel) >= MaxSel THEN sel ELSE Append(sel, x)

\* "selected_conditions.append(x)" with no membership test
AppendAny(sel, x) ==
    IF Len(sel) >= MaxSel THEN sel ELSE Append(sel, x)

RECURSIVE AppendAllNew(_, _)
AppendAllNew(sel, xs) ==
    IF xs = <<>> THEN sel ELSE AppendAllNew(AppendNew(sel, Head(xs)), Tail(xs))

\* the input lines of the selection loop
Lines ==
    {[kind |-> "d", entry |-> "", tokens |-> <<>>],
     [kind |-> "empty", entry |-> "", tokens |-> <<>>]}
    \cup {[kind |-> "m", entry |-> e, tokens |-> <<>>] : e \in ManualEntries}
    \cup {[kind |-> "nums", entry |-> "", tokens |-> t] : t \in NumberLines}

\* int(i.strip()) over every token: any token int() rejects raises ValueError
\* before anything is added
ParsesAsInts(tokens) == \A i \in 1..Len(tokens) : tokens[i].isInt

\* variant: no lower bound on the index, a negative one counts from the
\* end of the list as Python's indexing does
RECURSIVE ChosenWraps(_, _)
ChosenWraps(cands, tokens) ==
    IF tokens = <<>> THEN <<>>
    ELSE LET idx == Head(tokens).val - 1
             rest == ChosenWraps(cands, Tail(tokens))
         IN IF -Len(cands) <= idx /\ idx < Len(cands)
            THEN <<cands[IF idx < 0 THEN Len(cands) + idx + 1 ELSE idx + 1]>> \o rest
            ELSE rest

\* the candidates a parsed line names, in the line's order, out-of-range
\* numbers dropped (idx = number - 1, 0 <= idx < len(conditions_list))
RECURSIVE Chosen(_, _)
Chosen(cands, tokens) ==
    IF tokens = <<>> THEN <<>>
    ELSE LET idx == Head(tokens).val - 1
             rest == Chosen(cands, Tail(tokens))
         IN IF 0 <= idx /\ idx < Len(cands)
            THEN <<cands[idx + 1]>> \o rest
            ELSE rest

\* file engine, no candidates: one pass of the manual loop.
\* Yields the list and whether the loop was left.
FileManualStep(sel, entry) ==
    IF entry = ""
    THEN [sel |-> sel, done |-> sel # <<>>]
    ELSE [sel |-> AppendNew(sel, entry), done |-> FALSE]

\* file engine, candidates shown: one pass of the selection loop
FileListStep(cands, sel, line) ==
    CASE line.kind = "d" -> [sel |-> sel, done |-> sel # <<>>]
      [] line.kind = "m" ->
            [sel |-> IF line.entry # "" THEN AppendNew(sel, line.entry) ELSE sel,
             done |-> FALSE]
      [] line.kind = "empty" -> [sel |-> sel, done |-> FALSE]
      [] OTHER ->
            [sel |-> IF ParsesAsInts(line.tokens)
                     THEN AppendAllNew(sel, Chosen(cands, line.tokens))
                     ELSE sel,
             done |-> FALSE]

\* summary engine, no candidates: an empty line leaves the loop at once
SummaryManualStep(sel, entry) ==
    IF entry = ""
    THEN [sel |-> sel, done |-> TRUE]
    ELSE [sel |-> AppendAny(sel, entry), done |-> FALSE]

\* summary engine, candidates shown
SummaryListStep(cands, sel, line) ==
    CASE line.kind = "d" -> [sel |-> sel, done |-> sel # <<>>]
      [] line.kind = "m" ->
            [sel |-> IF line.entry # "" THEN AppendAny(sel, line.entry) ELSE sel,
             done |-> FALSE]
      [] OTHER ->
            [sel |-> IF line.kind = "nums" /\ ParsesAsInts(line.tokens)
                     THEN AppendAllNew(sel, Chosen(cands, line.tokens))
                     ELSE sel,
             done |-> FALSE]

\* one pass of the loop the program runs for this candidate list
LoopSteps(prog, cands, sel) ==
    IF prog = "file"
    THEN IF cands = <<>>
         THEN {FileManualStep(sel, e) : e \in ManualEntries}
         ELSE {FileListStep(cands, sel, l) : l \in Lines}
    ELSE IF cands = <<>>
         THEN {SummaryManualStep(sel, e) : e \in ManualEntries}
         ELSE {SummaryListStep(cands, sel, l) : l \in Lines}

\* the values selected_conditions takes inside the loop, over every
\* sequence of input lines
RECURSIVE LoopStates(_, _, _)
LoopStates(prog, cands, seen) ==
    LET more == seen \cup {st.sel : st \in
                     {st \in UNION {LoopSteps(prog, cands, s) : s \in seen} : ~st.done}}
    IN IF more = seen THEN seen ELSE LoopStates(prog, cands, more)

\* the values selected_conditions can have when the loop is left
Selections(prog, cands) ==
    {st.sel : st \in {st \in UNION {LoopSteps(prog, cands, s) :
                                       s \in LoopStates(prog, cands, {<<>>})} : st.done}}

\* the lists a revise of each engine can end its selection loop with
FileSelections == [cands \in CandidateLists |-> Selections("file", cands)]
SummarySelections == [cands \in CandidateLists |-> Selections("summary", cands)]

\* ------------------------------------------------------ the storage file
\* the nodes reachable from node n through the child maps l and r
RECURSIVE ReachableFrom(_, _, _)
ReachableFrom(n, l, r) ==
    IF n = None THEN {}
    ELSE {n} \cup ReachableFrom(l[n], l, r) \cup ReachableFrom(r[n], l, r)

\* RDREngine(): no root
FreshEngine ==
    [root |-> None,
     left |-> [n \in NodeIds |-> None], right |-> [n \in NodeIds |-> None],
     conditions |-> [n \in NodeIds |-> <<>>], conclusions |-> [n \in NodeIds |-> ""],
     data |-> [n \in NodeIds |-> <<>>], summary |-> [n \in NodeIds |-> {}],
     nNodes |-> 0]

\* pickle.dump(engine): the objects reachable from engine.root
Pickled(rt, l, r, cnd, ccl, d, s, n) ==
    LET kept == ReachableFrom(rt, l, r)
    IN [root |-> rt,
        left |-> [x \in NodeIds |-> IF x \in kept THEN l[x] ELSE None],
        right |-> [x \in NodeIds |-> IF x \in kept THEN r[x] ELSE None],
        conditions |-> [x \in NodeIds |-> IF x \in kept THEN cnd[x] ELSE <<>>],
        conclusions |-> [x \in NodeIds |-> IF x \in kept THEN ccl[x] ELSE ""],
        data |-> [x \in NodeIds |-> IF x \in kept THEN d[x] ELSE <<>>],
        summary |-> [x \in NodeIds |-> IF x \in kept THEN s[x] ELSE {}],
        nNodes |-> n]

\* no rdr_tree.pkl in the directory
NoFile == [exists |-> FALSE, readable |-> FALSE, engine |-> FreshEngine]

\* open(..., "wb") and pickle.dump: written, open refused (the file stays as
\* it was), or the dump broken off (the file is left truncated).  Runs with
\* disk = "unwatched" are those in which every write succeeds; what the file
\* then holds is left out of their state, nothing in them reads it.  With
\* disk = "sound" every write succeeds and the file is tracked.
WriteOutcomes == IF disk = "failing"
                 THEN {"WRITTEN", "OPEN_FAILED", "DUMP_FAILED"}
                 ELSE {"WRITTEN"}

Written(outcome, file, engine) ==
    IF disk = "unwatched" THEN file
    ELSE CASE outcome = "WRITTEN" ->
                  [exists |-> TRUE, readable |-> TRUE, engine |-> engine]
           [] outcome = "OPEN_FAILED" -> file
           [] OTHER -> [exists |-> TRUE, readable |-> FALSE, engine |-> FreshEngine]

\* -------------------------------------------------- the reference of differentiate
\* what llm_get_differentiating_conditions was given as the old case: a path
\* in the file engine, a summary in the summary engine and the app
Compared(path, text) == [called |-> TRUE, path |-> path, summary |-> text]

\* no differentiate call in the latest operation
NoCall == [called |-> FALSE, path |-> "", summary |-> {}]

PathOldOfRoot(n2) ==
    IF root # None /\ data[root] # <<>> THEN data[root][1] ELSE ""

\* file engine: the first cornerstone path of n2, None ("") without n2
PathOld(n2) ==
    IF n2 # None /\ data[n2] # <<>> THEN data[n2][1] ELSE ""

ReferenceSummaryOfRoot(n2) ==
    IF root # None THEN summary[root] ELSE {}

\* summary engine and app: the summary of n2, "" (the empty profile) without n2
ReferenceSummary(n2) ==
    IF n2 # None THEN summary[n2] ELSE {}

\* ------------------------------------------------------------ the state
Init ==
    /\ program \in Programs
    /\ files \in {{"a.json"}, Cases}
    /\ answers \in {{"Flu"}, Conclusions}
    /\ root = None
    /\ left = [n \in NodeIds |-> None]
    /\ right = [n \in NodeIds |-> None]
    /\ conditions = [n \in NodeIds |-> <<>>]
    /\ conclusions = [n \in NodeIds |-> ""]
    /\ data = [n \in NodeIds |-> <<>>]
    /\ summary = [n \in NodeIds |-> {}]
    /\ nNodes = 0
    /\ result = <<None, None>>
    /\ calls = <<>>
    /\ current_summary = {}
    /\ diff_conditions = <<>>
    /\ show_revision_form = FALSE
    /\ lastOp = "start"
    /\ reference = NoCall
    /\ merge_outcome = "none"
    /\ pc = "idle"
    /\ transcript_path = ""
    /\ new_patient_summary = {}
    /\ new_concl = ""
    /\ conditions_list = <<>>
    /\ selected_conditions = <<>>
    /\ choice_str = NoChoice
    /\ check_call = NoCheck
    /\ check_result = NotReturned
    /\ diff_reply = NoReply
    /\ disk = "unwatched"
    /\ storage = NoFile
    /\ main_pc = "prompt"

\* --------------------------------------------------- attaching a node
\* "if self.root is None: root = new / elif n1 == n2: n1.right = new /
\* else: n1.left = new".  Writing an attribute of None raises
\* AttributeError and writes nothing.
\* variant: exception and alternative slots exchanged
AttachSwapped(n1, n2, new) ==
    IF root = None
    THEN [root |-> new, left |-> left, right |-> right, raised |-> FALSE]
    ELSE IF n1 = n2
         THEN [root |-> root,
               left |-> IF n1 = None THEN left ELSE [left EXCEPT ![n1] = new],
               right |-> right, raised |-> n1 = None]
         ELSE [root |-> root, left |-> left,
               right |-> IF n1 = None THEN right ELSE [right EXCEPT ![n1] = new],
               raised |-> n1 = None]

\* variant: the n1 == n2 test is lost, every new node goes to n1.right
AttachAlwaysRight(n1, n2, new) ==
    IF root = None
    THEN [root |-> new, left |-> left, right |-> right, raised |-> FALSE]
    ELSE [root |-> root, left |-> left,
          right |-> IF n1 = None THEN right ELSE [right EXCEPT ![n1] = new],
          raised |-> n1 = None]

\* variant: the alternative branch makes the new node the root
AttachAsRoot(n1, n2, new) ==
    IF root = None
    THEN [root |-> new, left |-> left, right |-> right, raised |-> FALSE]
    ELSE IF n1 = n2
         THEN [root |-> root, left |-> left,
               right |-> IF n1 = None THEN right ELSE [right EXCEPT ![n1] = new],
               raised |-> n1 = None]
         ELSE [root |-> new, left |-> left, right |-> right, raised |-> FALSE]

\* variant: the exception branch writes the new node into both slots of n1
AttachBothSides(n1, n2, new) ==
    IF root = None
    THEN [root |-> new, left |-> left, right |-> right, raised |-> FALSE]
    ELSE IF n1 = n2
         THEN [root |-> root,
               left |-> IF n1 = None THEN left ELSE [left EXCEPT ![n1] = new],
               right |-> IF n1 = None THEN right ELSE [right EXCEPT ![n1] = new],
               raised |-> n1 = None]
         ELSE [root |-> root,
               left |-> IF n1 = None THEN left ELSE [left EXCEPT ![n1] = new],
               right |-> right, raised |-> n1 = None]

Attach(n1, n2, new) ==
    IF root = None
    THEN [root |-> new, left |-> left, right |-> right, raised |-> FALSE]
    ELSE IF n1 = n2
         THEN [root |-> root, left |-> left,
               right |-> IF n1 = None THEN right ELSE [right EXCEPT ![n1] = new],
               raised |-> n1 = None]
         ELSE [root |-> root,
               left |-> IF n1 = None THEN left ELSE [left EXCEPT ![n1] = new],
               right |-> right, raised |-> n1 = None]

\* json.dumps of a list of strings, as the tokens of the text it writes: the
\* brackets, the string literals in list order, a comma between two of them
JsonToken(kind, text) == [kind |-> kind, text |-> text]

RECURSIVE JsonItems(_)
JsonItems(list) ==
    IF list = <<>> THEN <<>>
    ELSE IF Len(list) = 1 THEN <<JsonToken("string", list[1])>>
    ELSE <<JsonToken("string", Head(list)), JsonToken("punct", ",")>>
           \o JsonItems(Tail(list))

\* variant: the literals are written last element first
JsonDumpsReversed(list) ==
    <<JsonToken("punct", "[")>>
      \o JsonItems([i \in 1..Len(list) |-> list[Len(list) + 1 - i]])
      \o <<JsonToken("punct", "]")>>

JsonDumps(list) ==
    <<JsonToken("punct", "[")>> \o JsonItems(list) \o <<JsonToken("punct", "]")>>

\* json.loads of such a text: the strings of its literals, in order
JsonLoads(tokens) ==
    LET isString(tok) == tok.kind = "string"
        strings == SelectSeq(tokens, isString)
    IN [i \in 1..Len(strings) |-> strings[i].text]

\* ------------------------------- llm_get_differentiating_conditions
\* The reply text as tokens: the tokens of a JSON text, the opening fence
\* of a json code block (three backticks and the word json, seven
\* characters), single backticks.
OpenFence == JsonToken("fence", "json")
Tick == JsonToken("tick", "backtick")
Ticks == <<Tick, Tick, Tick>>

\* a token that is one character of the text
OneChar(tok) == tok.kind \in {"punct", "tick"}

\* text[7:-3] / text[1:-1]: the slice cuts whatever stands at the end; a
\* string literal cut in the middle no longer is one
Broken == JsonToken("broken", "")

RECURSIVE CutEnd(_, _)
CutEnd(tokens, n) ==
    IF n = 0 \/ tokens = <<>> THEN tokens
    ELSE IF OneChar(tokens[Len(tokens)])
    THEN CutEnd(SubSeq(tokens, 1, Len(tokens) - 1), n - 1)
    ELSE Append(SubSeq(tokens, 1, Len(tokens) - 1), Broken)

StripFences(tokens) ==
    IF tokens # <<>> /\ Head(tokens) = OpenFence THEN CutEnd(Tail(tokens), 3)
    ELSE IF tokens # <<>> /\ Head(tokens) = Tick THEN CutEnd(Tail(tokens), 1)
    ELSE tokens

\* json.loads accepts the text and yields a list of strings
IsJsonList(tokens) == tokens = JsonDumps(JsonLoads(tokens))

\* json.loads accepts the text and yields another value (a string)
IsJsonOther(tokens) == Len(tokens) = 1 /\ tokens[1].kind = "string"

\* what a call can meet: a new case that cannot be read, an API call that
\* raises, or a reply text
DiffTexts(lists) ==
    UNION {{JsonDumps(l), <<OpenFence>> \o JsonDumps(l) \o Ticks,
            <<Tick>> \o JsonDumps(l) \o <<Tick>>,
            Ticks \o JsonDumps(l) \o Ticks} : l \in lists}
    \cup {<<JsonToken("string", "fever")>>, <<JsonToken("punct", "[")>>, <<>>}

DiffReplies(lists) ==
    {[readable |-> FALSE, raised |-> FALSE, text |-> <<>>],
     [readable |-> TRUE, raised |-> TRUE, text |-> <<>>]}
    \cup {[readable |-> TRUE, raised |-> FALSE, text |-> t] : t \in DiffTexts(lists)}

\* variant: a JSON value that is not a list is handed back as a one-element list
LlmGetDifferentiatingConditionsWraps(reply) ==
    IF ~reply.readable \/ reply.raised THEN <<>>
    ELSE LET response_text == StripFences(reply.text)
         IN IF IsJsonList(response_text) THEN JsonLoads(response_text)
            ELSE IF IsJsonOther(response_text) THEN <<response_text[1].text>>
            ELSE <<>>

LlmGetDifferentiatingConditions(reply) ==
    IF ~reply.readable \/ reply.raised THEN <<>>
    ELSE LET response_text == StripFences(reply.text)
         IN IF IsJsonList(response_text) THEN JsonLoads(response_text)
            ELSE <<>>

\* Rule(json.dumps(selected), new_concl); the node has no children
\* variant: the conditions are also written into the root's rule
NewRuleRewritesRoot(new, sel, concl) ==
    /\ conditions' = IF root = None
                      THEN [conditions EXCEPT ![new] = JsonDumps(sel)]
                      ELSE [conditions EXCEPT ![new] = JsonDumps(sel),
                                              ![root] = JsonDumps(sel)]
    /\ conclusions' = [conclusions EXCEPT ![new] = concl]

NewRule(new, sel, concl) ==
    /\ conditions' = [conditions EXCEPT ![new] = JsonDumps(sel)]
    /\ conclusions' = [conclusions EXCEPT ![new] = concl]

\* ------------------------------------------ src/rdr_engine.py: revise
\* agree path: "if n2: ... if file_answer == 'y': n2.vertex.data.append(path)"
\* variant: the path is appended to the root's data, not to n2's
FileAgreeAtRoot(path, n2, addFile) ==
    /\ data' = IF n2 # None /\ addFile
               THEN [data EXCEPT ![root] = Append(@, path)]
               ELSE data
    /\ UNCHANGED <<tree, rules, summary, nNodes>>
    /\ lastOp' = "agree"
    /\ reference' = NoCall
    /\ merge_outcome' = "none"

\* variant: the path is put in front of the list
FileAgreePrepends(path, n2, addFile) ==
    /\ data' = IF n2 # None /\ addFile
               THEN [data EXCEPT ![n2] = <<path>> \o @]
               ELSE data
    /\ UNCHANGED <<tree, rules, summary, nNodes>>
    /\ lastOp' = "agree"
    /\ reference' = NoCall
    /\ merge_outcome' = "none"

FileAgree(path, n2, addFile) ==
    /\ data' = IF n2 # None /\ addFile
               THEN [data EXCEPT ![n2] = Append(@, path)]
               ELSE data
    /\ UNCHANGED <<tree, rules, summary, nNodes>>
    /\ lastOp' = "agree"
    /\ reference' = NoCall
    /\ merge_outcome' = "none"

\* disagree path: conclusion, candidates, selection, new node, attach
FileDisagree(path, n1, n2, concl, sel) ==
    LET new == nNodes + 1
        at == Attach(n1, n2, new)
    IN /\ NewRule(new, sel, concl)
       /\ data' = [data EXCEPT ![new] = <<path>>]
       /\ root' = at.root /\ left' = at.left /\ right' = at.right
       /\ nNodes' = new
       /\ UNCHANGED summary
       /\ lastOp' = "revise"
       /\ reference' = Compared(PathOld(n2), {})
       /\ merge_outcome' = "none"

FileReviseCall ==
    /\ program = "file"
    /\ \E path \in files, r \in InterpretRuns :
            /\ result' = <<r.n1, r.n2>>
            /\ calls' = r.calls
            /\ \/ \E addFile \in BOOLEAN :
                    /\ (r.n2 # None /\ addFile) => Len(data[r.n2]) < MaxData
                    /\ FileAgree(path, r.n2, addFile)
               \/ /\ nNodes < MaxNodes
                  /\ \E concl \in answers, cands \in CandidateLists :
                       \E sel \in FileSelections[cands] :
                          FileDisagree(path, r.n1, r.n2, concl, sel)
    /\ UNCHANGED <<program, files, answers, disk, oracle, locals, session>>

\* a revise call on the loaded engine; saving is the caller's business
FileRevise == FileReviseCall /\ UNCHANGED persist

\* -------------------------------------- src/app/rdr_engine.py: revise
\* llm_generate_summary(path): the profile of the case, or an empty
\* result when it fails
GeneratedSummaries(path) == {{path}, {}}

\* variant: revise goes on with whatever llm_generate_summary returned
SummaryFailedNever(new_summary) == FALSE

\* "if not new_patient_summary:"
SummaryFailed(new_summary) == new_summary = {}

\* llm_merge_summaries(old, new): the consolidated profile, or the old
\* profile when it fails
MergeOutcomes == {"MERGED", "FAILED"}

LlmMergeSummaries(old, new, outcome) ==
    IF outcome = "MERGED" THEN old \cup new ELSE old

MergedSummaries(old, new) ==
    {LlmMergeSummaries(old, new, outcome) : outcome \in MergeOutcomes}

\* agree path: "if n2: n2.vertex.summary = llm_merge_summaries(...)"
\* variant: the case's summary is stored in place of the merge
SummaryAgreeReplaces(n2, new_summary) ==
    /\ IF n2 # None
       THEN \E outcome \in MergeOutcomes :
               /\ summary' = [summary EXCEPT ![n2] =
                                 IF outcome = "MERGED" THEN new_summary
                                 ELSE LlmMergeSummaries(@, new_summary, outcome)]
               /\ merge_outcome' = outcome
       ELSE UNCHANGED summary /\ merge_outcome' = "none"
    /\ UNCHANGED <<tree, rules, data, nNodes>>
    /\ lastOp' = "agree"
    /\ reference' = NoCall

\* variant: a merge that failed leaves an empty profile behind
SummaryAgreeStoresFailure(n2, new_summary) ==
    /\ IF n2 # None
       THEN \E outcome \in MergeOutcomes :
               /\ summary' = [summary EXCEPT ![n2] =
                                 IF outcome = "FAILED" THEN {}
                                 ELSE LlmMergeSummaries(@, new_summary, outcome)]
               /\ merge_outcome' = outcome
       ELSE UNCHANGED summary /\ merge_outcome' = "none"
    /\ UNCHANGED <<tree, rules, data, nNodes>>
    /\ lastOp' = "agree"
    /\ reference' = NoCall

SummaryAgree(n2, new_summary) ==
    /\ IF n2 # None
       THEN \E outcome \in MergeOutcomes :
               /\ summary' = [summary EXCEPT ![n2] =
                                 LlmMergeSummaries(@, new_summary, outcome)]
               /\ merge_outcome' = outcome
       ELSE UNCHANGED summary /\ merge_outcome' = "none"
    /\ UNCHANGED <<tree, rules, data, nNodes>>
    /\ lastOp' = "agree"
    /\ reference' = NoCall

SummaryDisagree(new_summary, n1, n2, concl, sel) ==
    LET new == nNodes + 1
        at == Attach(n1, n2, new)
    IN /\ NewRule(new, sel, concl)
       /\ summary' = [summary EXCEPT ![new] = new_summary]
       /\ root' = at.root /\ left' = at.left /\ right' = at.right
       /\ nNodes' = new
       /\ UNCHANGED data
       /\ lastOp' = "revise"
       /\ reference' = Compared("", ReferenceSummary(n2))
       /\ merge_outcome' = "none"

SummaryReviseCall ==
    /\ program = "summary"
    /\ \E path \in files :
         \E new_summary \in GeneratedSummaries(path) :
            IF SummaryFailed(new_summary)
            THEN \* "Aborting.": interpret is never called
                 /\ result' = <<None, None>>
                 /\ calls' = <<>>
                 /\ lastOp' = "abort"
                 /\ reference' = NoCall
                 /\ merge_outcome' = "none"
                 /\ UNCHANGED <<tree, rules, data, summary, nNodes>>
            ELSE \E r \in InterpretRuns :
                    /\ result' = <<r.n1, r.n2>>
                    /\ calls' = r.calls
                    /\ \/ SummaryAgree(r.n2, new_summary)
                       \/ /\ nNodes < MaxNodes
                          /\ \E concl \in answers, cands \in CandidateLists :
                               \E sel \in SummarySelections[cands] :
                                  SummaryDisagree(new_summary, r.n1, r.n2, concl, sel)
    /\ UNCHANGED <<program, files, answers, disk, oracle, locals, session>>

SummaryRevise == SummaryReviseCall /\ UNCHANGED persist

\* ------------------------------------------------- src/app/app.py
\* Each action is one script run, started by the click of one button.  The
\* results area (Agree, Disagree and the revision form) is drawn only while
\* current_summary is truthy, the form only while show_revision_form is set.

\* "Analyze Case" with a transcript path
\* variant: the interpret it runs files the case's profile under lastMatched
AnalyzeCaseStores ==
    /\ program = "app"
    /\ main_pc = "prompt"
    /\ \E path \in files :
         \E s \in GeneratedSummaries(path), r \in InterpretRuns :
            /\ current_summary' = s
            /\ result' = <<r.n1, r.n2>>
            /\ calls' = r.calls
            /\ summary' = IF r.n2 # None THEN [summary EXCEPT ![r.n2] = s] ELSE summary
    /\ diff_conditions' = <<>>
    /\ lastOp' = "analyze"
    /\ reference' = NoCall
    /\ merge_outcome' = "none"
    /\ UNCHANGED <<program, files, answers, disk, oracle, persist, locals, tree, rules, data,
                   nNodes, show_revision_form>>

AnalyzeCase ==
    /\ program = "app"
    /\ main_pc = "prompt"
    /\ \E path \in files :
         \E s \in GeneratedSummaries(path), r \in InterpretRuns :
            /\ current_summary' = s
            /\ result' = <<r.n1, r.n2>>
            /\ calls' = r.calls
    /\ diff_conditions' = <<>>
    /\ lastOp' = "analyze"
    /\ reference' = NoCall
    /\ merge_outcome' = "none"
    /\ UNCHANGED <<program, files, answers, disk, oracle, persist, locals, tree, rules, data,
                   summary, nNodes, show_revision_form>>

\* "Agree (Correct)": merges into the stored n2, when there is one
AppAgree ==
    /\ program = "app"
    /\ current_summary # {}
    /\ LET n2 == result[2]
       IN IF n2 # None
          THEN \E outcome \in MergeOutcomes :
                  /\ summary' = [summary EXCEPT ![n2] =
                                    LlmMergeSummaries(@, current_summary, outcome)]
                  /\ merge_outcome' = outcome
          ELSE UNCHANGED summary /\ merge_outcome' = "none"
    /\ lastOp' = "agree"
    /\ reference' = NoCall
    /\ UNCHANGED <<program, files, answers, disk, oracle, persist, locals, tree, rules, data,
                   nNodes, result, calls, session>>

\* "Disagree (Revise)"
AppDisagree ==
    /\ program = "app"
    /\ current_summary # {}
    /\ show_revision_form' = TRUE
    /\ lastOp' = "disagree"
    /\ reference' = NoCall
    /\ merge_outcome' = "none"
    /\ UNCHANGED <<program, files, answers, disk, oracle, persist, locals, tree, rules, data,
                   summary, nNodes, result, calls,
                   current_summary, diff_conditions>>

\* "Find Differences (Ask AI)"
FindDifferences ==
    /\ program = "app"
    /\ current_summary # {}
    /\ show_revision_form
    /\ diff_conditions' \in CandidateLists
    /\ lastOp' = "find"
    /\ reference' = Compared("", ReferenceSummary(result[2]))
    /\ merge_outcome' = "none"
    /\ UNCHANGED <<program, files, answers, disk, oracle, persist, locals, tree, rules, data,
                   summary, nNodes, result, calls,
                   current_summary, show_revision_form>>

\* final_conditions of the form: the ticked candidates in the order they are
\* listed, then the manual condition when one is typed
RECURSIVE Ticked(_, _)
Ticked(cands, ticks) ==
    IF cands = <<>> THEN <<>>
    ELSE (IF Head(ticks) THEN <<Head(cands)>> ELSE <<>>)
         \o Ticked(Tail(cands), Tail(ticks))

FinalConditions(cands, ticks, manual_cond) ==
    Ticked(cands, ticks) \o (IF manual_cond # "" THEN <<manual_cond>> ELSE <<>>)

\* "Save New Rule" with the form's widgets as the clinician left them
SaveNewRule ==
    /\ program = "app"
    /\ current_summary # {}
    /\ show_revision_form
    /\ \E new_conclusion \in answers, manual_cond \in ManualEntries,
          ticks \in [1..Len(diff_conditions) -> BOOLEAN] :
         LET final_conditions == FinalConditions(diff_conditions, ticks, manual_cond)
             new == nNodes + 1
             at == Attach(result[1], result[2], new)
         IN IF new_conclusion = "" \/ final_conditions = <<>>
            THEN \* st.error(...): nothing is created
                 /\ lastOp' = "save_rejected"
                 /\ reference' = NoCall
                 /\ merge_outcome' = "none"
                 /\ UNCHANGED <<tree, rules, summary, nNodes, show_revision_form,
                                storage>>
            ELSE IF at.raised
            THEN \* AttributeError ends the script run before any write
                 /\ lastOp' = "save_raised"
                 /\ reference' = NoCall
                 /\ merge_outcome' = "none"
                 /\ UNCHANGED <<tree, rules, summary, nNodes, show_revision_form,
                                storage>>
            ELSE /\ nNodes < MaxNodes
                 /\ NewRule(new, final_conditions, new_conclusion)
                 /\ summary' = [summary EXCEPT ![new] = current_summary]
                 /\ root' = at.root /\ left' = at.left /\ right' = at.right
                 /\ nNodes' = new
                 /\ reference' = NoCall
                 /\ merge_outcome' = "none"
                 \* pickle.dump of the engine; an exception leaves the form open
                 /\ \E outcome \in WriteOutcomes :
                      /\ storage' = Written(outcome, storage,
                                            Pickled(at.root, at.left, at.right,
                                                    conditions', conclusions',
                                                    data, summary', new))
                      /\ IF outcome = "WRITTEN"
                         THEN show_revision_form' = FALSE /\ lastOp' = "save"
                         ELSE UNCHANGED show_revision_form /\ lastOp' = "save_unwritten"
    /\ UNCHANGED <<program, files, answers, disk, oracle, main_pc, locals, data,
                   result, calls, current_summary, diff_conditions>>

Next ==
    \/ FileRevise
    \/ SummaryRevise
    \/ AnalyzeCase
    \/ AppAgree
    \/ AppDisagree
    \/ FindDifferences
    \/ SaveNewRule

Spec == Init /\ [][Next]_vars

\* the runs in which a single transcript file exists and the clinician
\* always types the conclusion "Flu"
InitNarrow == Init /\ files = {"a.json"} /\ answers = {"Flu"}
SpecNarrow == InitNarrow /\ [][Next]_vars

\* the runs of the file engine with both transcript files and the
\* conclusion "Flu": sequences of revise calls
InitFile == Init /\ program = "file" /\ files = Cases /\ answers = {"Flu"}
NextFile == FileRevise
SpecFile == InitFile /\ [][NextFile]_vars

\* ------------------------- RDREngine.revise, disagree path, line by line
\* The same code as FileDisagree / SummaryDisagree, followed from one
\* input() to the next, with two conditions to choose from so that the
\* order of a selection shows.
StepManualEntries == ManualEntries \cup {"cough"}
StepCandidateLists == CandidateLists \cup {<<"fever", "cough">>}

StepLines ==
    {[kind |-> "d", entry |-> "", tokens |-> <<>>],
     [kind |-> "empty", entry |-> "", tokens |-> <<>>]}
    \cup {[kind |-> "m", entry |-> e, tokens |-> <<>>] : e \in StepManualEntries}
    \cup {[kind |-> "nums", entry |-> "", tokens |-> t] : t \in NumberLines}

\* what the loop the program runs for this candidate list can read
StepInputs(cands) ==
    IF cands = <<>>
    THEN {[kind |-> "manual", entry |-> e, tokens |-> <<>>] :
             e \in StepManualEntries}
    ELSE StepLines

\* one pass of that loop on the line read
StepPass(prog, cands, sel, line) ==
    IF prog = "file"
    THEN IF cands = <<>>
         THEN FileManualStep(sel, line.entry)
         ELSE FileListStep(cands, sel, line)
    ELSE IF cands = <<>>
         THEN SummaryManualStep(sel, line.entry)
         ELSE SummaryListStep(cands, sel, line)

StepPasses(prog, cands, sel) ==
    {StepPass(prog, cands, sel, l) : l \in StepInputs(cands)}

\* trees earlier revise calls leave behind: none, a root, a root with an
\* alternative, a root with an exception
PreTrees ==
    {[root |-> None, left |-> None, right |-> None, n |-> 0],
     [root |-> 1, left |-> None, right |-> None, n |-> 1],
     [root |-> 1, left |-> 2, right |-> None, n |-> 2],
     [root |-> 1, left |-> None, right |-> 2, n |-> 2]}

InitRevise ==
    /\ program \in EnginePrograms
    /\ files = Cases
    /\ answers = Conclusions
    /\ \E t \in PreTrees :
          /\ root = t.root
          /\ left = [n \in NodeIds |-> IF n = 1 THEN t.left ELSE None]
          /\ right = [n \in NodeIds |-> IF n = 1 THEN t.right ELSE None]
          /\ nNodes = t.n
          /\ conditions = [n \in NodeIds |->
                              IF n <= t.n THEN JsonDumps(<<"fever">>) ELSE <<>>]
          /\ conclusions = [n \in NodeIds |-> IF n <= t.n THEN "Flu" ELSE ""]
          /\ data = [n \in NodeIds |->
                        IF n <= t.n /\ program = "file" THEN <<"a.json">> ELSE <<>>]
          /\ summary = [n \in NodeIds |->
                           IF n <= t.n /\ program = "summary" THEN {"a.json"} ELSE {}]
    /\ result = <<None, None>>
    /\ calls = <<>>
    /\ current_summary = {}
    /\ diff_conditions = <<>>
    /\ show_revision_form = FALSE
    /\ lastOp = "start"
    /\ reference = NoCall
    /\ merge_outcome = "none"
    /\ pc = "idle"
    /\ transcript_path = ""
    /\ new_patient_summary = {}
    /\ new_concl = ""
    /\ conditions_list = <<>>
    /\ selected_conditions = <<>>
    /\ choice_str = NoChoice
    /\ check_call = NoCheck
    /\ check_result = NotReturned
    /\ diff_reply = NoReply
    /\ disk = "unwatched"
    /\ storage = NoFile
    /\ main_pc = "prompt"

\* from the call to the first prompt of the selection loop: the summary (summary
\* engine), interpret, the answer 'n', the conclusion, the candidate list
ReviseBegin ==
    /\ program \in EnginePrograms
    /\ pc = "idle"
    /\ nNodes < MaxNodes
    /\ \E path \in files :
          /\ transcript_path' = path
          /\ new_patient_summary' \in
                IF program = "summary" THEN GeneratedSummaries(path) ELSE {{}}
    /\ IF program = "summary" /\ SummaryFailed(new_patient_summary')
       THEN \* "Aborting.": revise returns before interpret
            /\ pc' = "aborted"
            /\ lastOp' = "abort"
            /\ result' = <<None, None>>
            /\ calls' = <<>>
            /\ reference' = NoCall
            /\ diff_reply' = NoReply
            /\ UNCHANGED <<new_concl, conditions_list, selected_conditions,
                           choice_str>>
       ELSE /\ \E r \in InterpretRuns :
                  /\ result' = <<r.n1, r.n2>>
                  /\ calls' = r.calls
                  /\ reference' = IF program = "file"
                                  THEN Compared(PathOld(r.n2), {})
                                  ELSE Compared("", ReferenceSummary(r.n2))
            /\ new_concl' \in answers
            \* the file engine's differentiate is src/llm_api.py; the summary
            \* engine's is known by its result only
            /\ IF program = "file"
               THEN /\ diff_reply' \in DiffReplies(StepCandidateLists)
                    /\ conditions_list' = LlmGetDifferentiatingConditions(diff_reply')
               ELSE /\ diff_reply' = NoReply
                    /\ conditions_list' \in StepCandidateLists
            /\ selected_conditions' = <<>>
            /\ choice_str' = NoChoice
            /\ pc' = "select"
            /\ lastOp' = "begin"
    /\ merge_outcome' = "none"
    /\ UNCHANGED <<program, files, answers, disk, check_call, check_result, persist,
                   session, tree, rules, data, summary, nNodes>>

\* one pass of the selection loop; the pass that leaves the loop goes on to
\* build the node and attach it
ReviseSelect ==
    /\ program \in EnginePrograms
    /\ pc = "select"
    /\ \E line \in StepInputs(conditions_list) :
        LET pass == StepPass(program, conditions_list, selected_conditions, line)
        IN
          /\ choice_str' = line
          /\ selected_conditions' = pass.sel
          /\ IF pass.done
             THEN /\ IF program = "file"
                     THEN FileDisagree(transcript_path, result[1], result[2],
                                       new_concl, pass.sel)
                     ELSE SummaryDisagree(new_patient_summary, result[1], result[2],
                                          new_concl, pass.sel)
                  /\ pc' = "done"
             ELSE /\ pc' = "select"
                  /\ lastOp' = "select"
                  /\ UNCHANGED reference
                  /\ merge_outcome' = "none"
                  /\ UNCHANGED <<tree, rules, data, summary, nNodes>>
    /\ UNCHANGED <<program, files, answers, disk, oracle, persist, session, result, calls, transcript_path,
                   new_patient_summary, new_concl, conditions_list>>

NextRevise ==
    \/ ReviseBegin
    \/ ReviseSelect

SpecRevise == InitRevise /\ [][NextRevise]_vars

\* ------------------------------------- llm_check_condition taken alone
\* One call of the function with what it meets drawn from CheckCalls; the
\* engine it is called for stands ready with an empty tree.
InitCheck ==
    /\ program = "file"
    /\ files = Cases
    /\ answers = Conclusions
    /\ root = FreshEngine.root
    /\ left = FreshEngine.left
    /\ right = FreshEngine.right
    /\ conditions = FreshEngine.conditions
    /\ conclusions = FreshEngine.conclusions
    /\ data = FreshEngine.data
    /\ summary = FreshEngine.summary
    /\ nNodes = FreshEngine.nNodes
    /\ result = <<None, None>>
    /\ calls = <<>>
    /\ current_summary = {}
    /\ diff_conditions = <<>>
    /\ show_revision_form = FALSE
    /\ lastOp = "start"
    /\ reference = NoCall
    /\ merge_outcome = "none"
    /\ pc = "idle"
    /\ transcript_path = ""
    /\ new_patient_summary = {}
    /\ new_concl = ""
    /\ conditions_list = <<>>
    /\ selected_conditions = <<>>
    /\ choice_str = NoChoice
    /\ check_call \in CheckCalls
    /\ check_result = NotReturned
    /\ diff_reply = NoReply
    /\ disk = "unwatched"
    /\ storage = NoFile
    /\ main_pc = "prompt"

\* the call: every path ends in a return statement
CheckCondition ==
    /\ ~check_result.returned
    /\ check_result' = [returned |-> TRUE, raised |-> FALSE,
                        value |-> LlmCheckCondition(CheckOutcome(check_call))]
    /\ lastOp' = "check"
    /\ UNCHANGED <<program, files, answers, disk, check_call, diff_reply, persist,
                   locals, session, tree, rules, data, summary, nNodes, result,
                   calls, reference, merge_outcome>>

NextCheck == CheckCondition

SpecCheck == InitCheck /\ [][NextCheck]_vars

\* ------------------------------------------- load_tree, save_tree, main
\* A session of one program from before the storage file is read: the
\* start of all three, then main() of the two console engines statement by
\* statement (the app's handlers are the actions above).  One transcript
\* exists, the clinician types "Flu", and writing the storage file can fail.

\* an engine an earlier session left in the storage file
EngineOf(t, prog) ==
    [root |-> t.root,
     left |-> [n \in NodeIds |-> IF n = 1 THEN t.left ELSE None],
     right |-> [n \in NodeIds |-> IF n = 1 THEN t.right ELSE None],
     conditions |-> [n \in NodeIds |->
                       IF n <= t.n THEN JsonDumps(<<"fever">>) ELSE <<>>],
     conclusions |-> [n \in NodeIds |-> IF n <= t.n THEN "Flu" ELSE ""],
     data |-> [n \in NodeIds |->
                 IF n <= t.n /\ prog = "file" THEN <<"a.json">> ELSE <<>>],
     summary |-> [n \in NodeIds |->
                    IF n <= t.n /\ prog # "file" THEN {"a.json"} ELSE {}],
     nNodes |-> t.n]

\* the storage file at startup: none, one that cannot be unpickled, a
\* pickled engine
StoredFiles(prog) ==
    {NoFile, [exists |-> TRUE, readable |-> FALSE, engine |-> FreshEngine]}
    \cup {[exists |-> TRUE, readable |-> TRUE, engine |-> EngineOf(t, prog)] :
             t \in PreTrees}

InitSession ==
    /\ program \in Programs
    /\ files = {"a.json"}
    /\ answers = {"Flu"}
    /\ disk \in {"failing", "sound"}
    /\ storage \in StoredFiles(program)
    /\ main_pc = "start"
    /\ root = FreshEngine.root
    /\ left = FreshEngine.left
    /\ right = FreshEngine.right
    /\ conditions = FreshEngine.conditions
    /\ conclusions = FreshEngine.conclusions
    /\ data = FreshEngine.data
    /\ summary = FreshEngine.summary
    /\ nNodes = FreshEngine.nNodes
    /\ result = <<None, None>>
    /\ calls = <<>>
    /\ current_summary = {}
    /\ diff_conditions = <<>>
    /\ show_revision_form = FALSE
    /\ lastOp = "start"
    /\ reference = NoCall
    /\ merge_outcome = "none"
    /\ pc = "idle"
    /\ transcript_path = ""
    /\ new_patient_summary = {}
    /\ new_concl = ""
    /\ conditions_list = <<>>
    /\ selected_conditions = <<>>
    /\ choice_str = NoChoice
    /\ check_call = NoCheck
    /\ check_result = NotReturned
    /\ diff_reply = NoReply

\* variant: a storage file that cannot be unpickled ends the start with the
\* exception
LoadTreeRaises(file) ==
    IF file.exists
    THEN IF file.readable
         THEN [raised |-> FALSE, engine |-> file.engine]
         ELSE [raised |-> TRUE, engine |-> FreshEngine]
    ELSE [raised |-> FALSE, engine |-> FreshEngine]

\* load_tree(): the unpickled engine, or RDREngine() when there is no file
\* or reading it raises (the app does the same inline)
LoadTree(file) ==
    IF file.exists /\ file.readable
    THEN [raised |-> FALSE, engine |-> file.engine]
    ELSE [raised |-> FALSE, engine |-> FreshEngine]

\* "engine = load_tree()" / the app's session state initialisation
Startup ==
    /\ main_pc = "start"
    /\ LET loaded == LoadTree(storage)
       IN IF loaded.raised
          THEN /\ main_pc' = "crashed"
               /\ UNCHANGED <<tree, rules, data, summary, nNodes>>
          ELSE /\ main_pc' = "prompt"
               /\ root' = loaded.engine.root
               /\ left' = loaded.engine.left
               /\ right' = loaded.engine.right
               /\ conditions' = loaded.engine.conditions
               /\ conclusions' = loaded.engine.conclusions
               /\ data' = loaded.engine.data
               /\ summary' = loaded.engine.summary
               /\ nNodes' = loaded.engine.nNodes
    /\ lastOp' = "load"
    /\ UNCHANGED <<program, files, answers, disk, oracle, storage, locals, session,
                   result, calls, reference, merge_outcome>>

\* the input() at the top of the loop: quit, a path that does not exist, a
\* path that does, Ctrl-C, end of input (EOFError: the file engine's
\* "finally" saves and the error goes on, the summary engine's loop has
\* nothing around it)
ReadCase ==
    /\ program \in EnginePrograms
    /\ main_pc = "prompt"
    /\ \E line \in {"quit", "missing", "found", "interrupt", "eof"} :
          /\ line = "found" => nNodes < MaxSessionNodes
          /\ main_pc' = CASE line = "missing" -> "prompt"
                          [] line = "found" -> "revise"
                          [] line = "eof" -> IF program = "file"
                                             THEN "final_save_raise"
                                             ELSE "crashed"
                          [] OTHER -> "final_save"
          /\ lastOp' = line
    /\ UNCHANGED <<program, files, answers, disk, oracle, storage, locals, session,
                   tree, rules, data, summary, nNodes, result, calls, reference,
                   merge_outcome>>

\* "engine.revise(path)": it returns, or one of its input() calls raises
\* KeyboardInterrupt or EOFError (every input() comes before the first write
\* to the tree)
MainRevise ==
    /\ program \in EnginePrograms
    /\ main_pc = "revise"
    /\ \/ /\ FileReviseCall \/ SummaryReviseCall
          /\ main_pc' = "save"
          /\ UNCHANGED storage
       \/ /\ \E raised \in {"KeyboardInterrupt", "EOFError"} :
                /\ lastOp' = raised
                /\ main_pc' = IF raised = "KeyboardInterrupt" THEN "final_save"
                              ELSE IF program = "file" THEN "final_save_raise"
                              ELSE "crashed"
          /\ UNCHANGED <<program, files, answers, disk, oracle, storage, locals,
                         session, tree, rules, data, summary, nNodes, result,
                         calls, reference, merge_outcome>>

\* save_tree(engine): src/rdr_engine.py logs a failure and returns,
\* src/app/rdr_engine.py lets the exception through
SaveTreeRaises(prog, outcome) == prog = "summary" /\ outcome # "WRITTEN"

\* variant: the loop goes back to the prompt without writing
MainSaveSkips ==
    /\ program \in EnginePrograms
    /\ main_pc = "save"
    /\ main_pc' = "prompt"
    /\ lastOp' = "saved"
    /\ UNCHANGED <<program, files, answers, disk, oracle, storage, locals, session,
                   tree, rules, data, summary, nNodes, result, calls, reference,
                   merge_outcome>>

\* "save_tree(engine)" after revise
MainSave ==
    /\ program \in EnginePrograms
    /\ main_pc = "save"
    /\ \E outcome \in WriteOutcomes :
          /\ storage' = Written(outcome, storage,
                                Pickled(root, left, right, conditions, conclusions,
                                        data, summary, nNodes))
          /\ lastOp' = IF outcome = "WRITTEN" THEN "saved" ELSE "save_failed"
          /\ main_pc' = IF SaveTreeRaises(program, outcome) THEN "crashed"
                        ELSE "prompt"
    /\ UNCHANGED <<program, files, answers, disk, oracle, locals, session,
                   tree, rules, data, summary, nNodes, result, calls, reference,
                   merge_outcome>>

\* the save_tree(engine) on the way out of main()
FinalSave ==
    /\ program \in EnginePrograms
    /\ main_pc \in {"final_save", "final_save_raise"}
    /\ \E outcome \in WriteOutcomes :
          /\ storage' = Written(outcome, storage,
                                Pickled(root, left, right, conditions, conclusions,
                                        data, summary, nNodes))
          /\ lastOp' = IF outcome = "WRITTEN" THEN "final_saved"
                       ELSE "final_save_failed"
          /\ main_pc' = IF SaveTreeRaises(program, outcome)
                           \/ main_pc = "final_save_raise"
                        THEN "crashed"
                        ELSE "exited"
    /\ UNCHANGED <<program, files, answers, disk, oracle, locals, session,
                   tree, rules, data, summary, nNodes, result, calls, reference,
                   merge_outcome>>

NextSession ==
    \/ Startup
    \/ ReadCase
    \/ MainRevise
    \/ MainSave
    \/ FinalSave

SpecSession == InitSession /\ [][NextSession]_vars

\* ======================================================== properties
\* the latest operation ran interpret (on the tree as it was before it)
Interpreted ==
    \/ program \in EnginePrograms /\ lastOp \in {"agree", "revise"}
    \/ program = "app" /\ lastOp = "analyze"

\* the latest operation was a completed disagree-path revise of an engine
Revised == program \in EnginePrograms /\ lastOp = "revise"

NoDuplicates(s) == \A i, j \in 1..Len(s) : s[i] = s[j] => i = j

\* C1: a disagree-path revise of RDREngine puts the new node at the root of
\* an empty tree, else at n1.right when n1 and n2 are the same node, else at
\* n1.left, (n1, n2) being what interpret returns on the tree at that
\* moment; no other slot and no other node is written.
C1_Placement ==
    [][Revised' =>
        LET n1 == result'[1]
            n2 == result'[2]
            new == nNodes'
        IN /\ \E r \in Interpret : r.n1 = n1 /\ r.n2 = n2 /\ r.calls = calls'
           /\ new = nNodes + 1
           /\ IF root = None
              THEN root' = new /\ left' = left /\ right' = right
              ELSE IF n1 = n2
                   THEN /\ root' = root /\ left' = left
                        /\ right' = [right EXCEPT ![n1] = new]
                   ELSE /\ root' = root /\ right' = right
                        /\ left' = [left EXCEPT ![n1] = new]
           /\ \A n \in NodeIds \ {new} :
                 /\ conditions'[n] = conditions[n]
                 /\ conclusions'[n] = conclusions[n]
                 /\ data'[n] = data[n]
                 /\ summary'[n] = summary[n]]_vars

\* a revise attached the new node as the left child of n1 below a
\* different, present n2
C1_Witness ==
    /\ Revised
    /\ result[2] # None /\ result[1] # result[2]
    /\ left[result[1]] = nNodes

\* C4: interpret returns the last node of the path that starts at the root
\* and goes right where the oracle says true and left where it says false,
\* and the last node of that path evaluated true (None if none); the path
\* ends exactly where the chosen child is absent.
C4_InterpretPath ==
    [][Interpreted' =>
        LET p == calls'
            node(i) == p[i][1]
            child(i) == IF p[i][2] THEN right[node(i)] ELSE left[node(i)]
            trues == {i \in 1..Len(p) : p[i][2]}
        IN /\ (root = None) = (p = <<>>)
           /\ p # <<>> => node(1) = root /\ child(Len(p)) = None
           /\ \A i \in 1..(Len(p) - 1) : child(i) # None /\ node(i + 1) = child(i)
           /\ result'[1] = IF p = <<>> THEN None ELSE node(Len(p))
           /\ result'[2] = IF trues = {} THEN None
                           ELSE node(CHOOSE i \in trues : \A j \in trues : j <= i)]_vars

\* an interpret whose path went right at a matching root and then stopped
\* at a node that did not match
C4_Witness ==
    /\ Interpreted
    /\ Len(calls) = 2 /\ calls[1][2] /\ ~calls[2][2]
    /\ result = <<right[root], root>>

\* C5: on an empty tree interpret returns (None, None) and calls the
\* oracle not once.
C5_EmptyTree ==
    [][(Interpreted' /\ root = None) => (result' = <<None, None>> /\ calls' = <<>>)]_vars

\* interpret has just run on an empty tree, which the agree path left empty
C5_Witness ==
    Interpreted /\ lastOp \in {"agree", "analyze"} /\ root = None /\ nNodes = 0

\* C6: every completed disagree-path revise of RDREngine adds exactly one
\* node to those reachable from the root.
C6_CountPlusOne ==
    [][Revised' =>
        Cardinality(ReachableFrom(root', left', right'))
          = Cardinality(ReachableFrom(root, left, right)) + 1]_vars

\* a revise has just brought the tree to three reachable nodes
C6_Witness ==
    Revised /\ Cardinality(ReachableFrom(root, left, right)) = 3

\* C10: the agree path leaves root, children and rules as they are and
\* changes the cornerstone data or profile of no node but lastMatched.
C10_AgreeFrame ==
    [][(lastOp' = "agree") =>
        /\ root' = root /\ left' = left /\ right' = right
        /\ conditions' = conditions /\ conclusions' = conclusions
        /\ nNodes' = nNodes
        /\ \A n \in NodeIds :
              (data'[n] # data[n] \/ summary'[n] # summary[n]) => n = result'[2]]_vars

\* an agree has just extended the cornerstone data of a lastMatched that is
\* not the only node
C10_Witness ==
    /\ lastOp = "agree" /\ nNodes >= 2 /\ result[2] # None
    /\ \/ program = "file" /\ Len(data[result[2]]) = 2
       \/ program # "file" /\ Cardinality(summary[result[2]]) = 2

\* C11: interpret leaves the tree as it is: the root reference and the
\* children, rule and profile of every node are the same after the call as
\* before it, whatever the profile and the oracle's answers.  The calls that
\* run interpret and nothing after it are Analyze Case of the app and the
\* revise of an engine that ends in an agree with no lastMatched.
C11_InterpretFrame ==
    [][(\/ lastOp' = "analyze"
        \/ program \in EnginePrograms /\ lastOp' = "agree" /\ result'[2] = None) =>
          /\ root' = root /\ left' = left /\ right' = right
          /\ conditions' = conditions /\ conclusions' = conclusions
          /\ data' = data /\ summary' = summary
          /\ nNodes' = nNodes]_vars

\* an interpret on its own has just visited two nodes and matched one
C11_Witness ==
    /\ lastOp = "analyze"
    /\ Len(calls) = 2 /\ result[2] # None

\* C12: interpret terminates on every tree the program can build, whatever
\* the oracle's outcomes, a failed evaluation counting as false: it makes one
\* evaluate call per node it visits and visits no node twice, so it makes no
\* more calls than the tree has nodes.
C12_InterpretTerminates ==
    \A r \in Interpret :
       /\ Len(r.outcomes) = Len(r.calls)
       /\ \A i, j \in 1..Len(r.calls) : r.calls[i][1] = r.calls[j][1] => i = j
       /\ \A i \in 1..Len(r.calls) :
             /\ r.calls[i][1] \in ReachableFrom(root, left, right)
             /\ r.calls[i][2] = (r.outcomes[i] = "TRUE")
       /\ Len(r.calls) <= Cardinality(ReachableFrom(root, left, right))

\* an interpret has just walked a chain of three nodes, which is the tree
C12_Witness ==
    /\ Interpreted
    /\ Len(calls) = 3
    /\ Cardinality(ReachableFrom(root, left, right)) = 3

\* C13: an interpret in which an oracle evaluation failed gives its caller a
\* result that differs from the result of an interpret in which the same
\* evaluations returned a genuine false.
C13_DegradedSignal ==
    \A r1, r2 \in Interpret :
       (/\ \E i \in 1..Len(r1.outcomes) : r1.outcomes[i] = "FAILED"
        /\ \A i \in 1..Len(r2.outcomes) : r2.outcomes[i] # "FAILED"
        /\ r1.calls = r2.calls)
          => <<r1.n1, r1.n2>> # <<r2.n1, r2.n2>>

\* the nodes reachable from the root, by closing {root} under the child maps
RECURSIVE Closure(_)
Closure(S) ==
    LET T == S \cup (({left[n] : n \in S} \cup {right[n] : n \in S}) \ {None})
    IN IF T = S THEN S ELSE Closure(T)

TreeNodes == Closure({root} \ {None})

\* the child slots (parent, side) of reachable nodes that hold node n
ParentSlots(n) ==
    {<<p, "left">> : p \in {q \in TreeNodes : left[q] = n}}
      \cup {<<p, "right">> : p \in {q \in TreeNodes : right[q] = n}}

\* C14: what is reachable from the root is a rooted binary tree: the root is
\* in no child slot and every other reachable node is in exactly one, which
\* leaves no cycle, no node with two parents and no node that is both
\* children of one parent.
C14_RootedBinaryTree ==
    \A n \in TreeNodes :
       Cardinality(ParentSlots(n)) = IF n = root THEN 0 ELSE 1

\* the root has a left and a right child
C14_Witness ==
    /\ root # None /\ left[root] # None /\ right[root] # None
    /\ Cardinality(TreeNodes) = 3

\* C15: no operation of any of the three programs lowers the number of
\* nodes reachable from the root.
C15_CountNeverDecreases ==
    [][Cardinality(TreeNodes') >= Cardinality(TreeNodes)]_vars

\* Save New Rule has just put a third node into a slot that held the
\* second: two nodes are reachable, as before
C15_Witness ==
    /\ program = "app" /\ lastOp = "save"
    /\ nNodes = 3 /\ Cardinality(TreeNodes) = 2

\* C16: across the revise calls of an engine a node once attached stays
\* where it is: the root stays the root, a child slot of a reachable node
\* that holds a node keeps holding it, and what was reachable stays
\* reachable.
C16_NodesStay ==
    [][(program \in EnginePrograms) =>
        /\ root # None => root' = root
        /\ \A p \in TreeNodes :
              /\ left[p] # None => left'[p] = left[p]
              /\ right[p] # None => right'[p] = right[p]
        /\ TreeNodes \subseteq TreeNodes']_vars

\* the second node is still the root's left child after a later revise has
\* attached the third one as the root's right child
C16_Witness ==
    /\ Revised /\ nNodes = 3
    /\ root = 1 /\ left[1] = 2 /\ right[1] = 3

\* C17: the conditions and the conclusion of a node are what they were when
\* the node was created, whatever operation follows.
C17_RuleFixed ==
    [][\A n \in 1..nNodes :
          /\ conditions'[n] = conditions[n]
          /\ conclusions'[n] = conclusions[n]]_vars

\* two nodes created with different conditions have been through a later
\* revise and a later agree
C17_Witness ==
    /\ nNodes = 3 /\ lastOp = "agree"
    /\ conditions[1] # conditions[2]

\* C18: the node a disagree-path revise creates has as its rule the selected
\* conditions, in the order they were selected, and the conclusion typed; as
\* its profile the case the revise was called with; and no child.  Selecting
\* only ever adds at the end of the list.
C18_NewNode ==
    [][(pc = "select") =>
        /\ SubSeq(selected_conditions', 1, Len(selected_conditions))
              = selected_conditions
        /\ (pc' = "done") =>
              LET new == nNodes'
              IN /\ new = nNodes + 1
                 /\ JsonLoads(conditions'[new]) = selected_conditions'
                 /\ conclusions'[new] = new_concl
                 /\ program = "file" =>
                       data'[new] = <<transcript_path>> /\ summary'[new] = {}
                 /\ program = "summary" =>
                       /\ summary'[new] = new_patient_summary
                       /\ new_patient_summary \in GeneratedSummaries(transcript_path)
                       /\ data'[new] = <<>>
                 /\ left'[new] = None /\ right'[new] = None]_vars

\* a revise for b.json has attached, below the root, a node whose rule lists
\* cough before fever
C18_Witness ==
    /\ pc = "done" /\ nNodes >= 2
    /\ transcript_path = "b.json"
    /\ JsonLoads(conditions[nNodes]) = <<"cough", "fever">>
    /\ \E n \in 1..(nNodes - 1) : left[n] = nNodes \/ right[n] = nNodes

\* the programs whose agree path merges profiles
MergingPrograms == {"summary", "app"}

\* the profiles the case of the latest operation can have: the app keeps it
\* in current_summary, the summary engine generates it from one of the files
CaseProfiles ==
    IF program = "app" THEN {current_summary}
    ELSE UNION {GeneratedSummaries(path) \ {{}} : path \in files}

\* C19: an agree with lastMatched present makes lastMatched's profile the
\* oracle's merge of its previous profile with the profile of the current
\* case; an agree with lastMatched absent changes nothing.
C19_AgreeMerges ==
    [][(program \in MergingPrograms /\ lastOp' = "agree") =>
        LET n2 == result'[2]
        IN IF n2 # None
           THEN \E new \in CaseProfiles :
                   summary'[n2] \in MergedSummaries(summary[n2], new)
           ELSE /\ summary' = summary /\ data' = data
                /\ root' = root /\ left' = left /\ right' = right
                /\ conditions' = conditions /\ conclusions' = conclusions
                /\ nNodes' = nNodes]_vars

\* an agree has merged the profile of b.json into a lastMatched that held
\* the profile of a.json
C19_Witness ==
    /\ program \in MergingPrograms /\ lastOp = "agree"
    /\ merge_outcome = "MERGED"
    /\ result[2] # None /\ summary[result[2]] = {"a.json", "b.json"}

C21_ReferenceIsLastMatched ==
    [][reference'.called =>
         LET n2 == result'[2]
         IN IF n2 = None
            THEN reference' = Compared("", {})
            ELSE IF program = "file"
                 THEN reference' = Compared(data[n2][1], {})
                 ELSE reference' = Compared("", summary[n2])]_vars

\* a call made with lastMatched present, different from lastVisited, the two
\* carrying different profiles
C21_Witness ==
    /\ reference.called
    /\ result[2] # None
    /\ result[1] # result[2]
    /\ IF program = "file"
       THEN data[result[1]][1] # data[result[2]][1]
       ELSE summary[result[1]] # summary[result[2]]

\* two runs of interpret were given the same oracle answers: no node was
\* evaluated with one outcome in one run and another outcome in the other
SameAnswers(r1, r2) ==
    \A i \in DOMAIN r1.calls, j \in DOMAIN r2.calls :
        r1.calls[i][1] = r2.calls[j][1] => r1.outcomes[i] = r2.outcomes[j]

C23_TrueOnlyOnTrue ==
    check_result.returned =>
        /\ ~check_result.raised
        /\ check_result.value =
              (/\ check_call.readable
               /\ ~check_call.raised
               /\ RemovePeriods(Upper(Strip(check_call.text))) = <<"T", "R", "U", "E">>)

\* a call has returned true on a reply that is the word only after all three
\* steps: blanks around it, lower case, a period
C23_Witness ==
    /\ check_result.returned
    /\ check_result.value
    /\ check_call.text = <<" ", "t", "r", "u", "e", ".">>

\* the failures of differentiate: the new case cannot be read, the API call
\* raises, the reply is not JSON (cut short, or empty), the reply is a JSON
\* value that is not a list
DifferentiateFailed(reply) ==
    \/ ~reply.readable
    \/ reply.raised
    \/ reply.text \in {<<JsonToken("punct", "[")>>, <<>>, <<JsonToken("string", "fever")>>}

\* C24: every failure of differentiate yields the empty candidate list, and
\* on an empty candidate list the file engine's revise goes on with manual
\* entry: it is not aborted, each pass adds at most the condition typed, and
\* the node it ends with carries the conditions typed, at least one.
C24_FailureFallsBackToManual ==
    [][(program = "file") =>
         /\ (pc = "idle" /\ pc' = "select" /\ DifferentiateFailed(diff_reply'))
               => conditions_list' = <<>>
         /\ (pc = "select" /\ conditions_list = <<>>)
               => /\ pc' \in {"select", "done"}
                  /\ \/ selected_conditions' = selected_conditions
                     \/ \E e \in StepManualEntries \ {""} :
                           selected_conditions' = Append(selected_conditions, e)
                  /\ pc' = "done"
                        => /\ nNodes' = nNodes + 1
                           /\ selected_conditions' # <<>>
                           /\ JsonLoads(conditions'[nNodes']) = selected_conditions'
      ]_vars

\* a revise whose differentiate call got a JSON string in reply has ended
\* with a node of manual conditions
C24_Witness ==
    /\ program = "file"
    /\ pc = "done"
    /\ diff_reply.readable /\ ~diff_reply.raised
    /\ diff_reply.text = <<JsonToken("string", "fever")>>
    /\ conditions_list = <<>>
    /\ JsonLoads(conditions[nNodes]) = <<"cough", "fever">>

\* C25: loading the engine at startup always yields an engine: the start
\* ends with the program ready for its first case, and when the storage file
\* does not exist or cannot be read the engine is a fresh one, its root
\* absent and no node in it.
C25_LoadAlwaysYieldsEngine ==
    [][(main_pc = "start") =>
         /\ main_pc' = "prompt"
         /\ (~storage.exists \/ ~storage.readable)
               => /\ root' = None
                  /\ nNodes' = 0
                  /\ \A n \in NodeIds : left'[n] = None /\ right'[n] = None
      ]_vars

\* a start on a storage file that could not be unpickled
C25_Witness ==
    /\ lastOp = "load"
    /\ storage.exists /\ ~storage.readable
    /\ main_pc = "prompt"
    /\ root = None

\* C26: a failing save does not end the session: the step in which
\* save_tree fails after a revise leaves the tree as that revise left it and
\* takes the main loop back to its prompt for the next case.
C26_FailedSaveGoesOn ==
    [][(main_pc = "save" /\ lastOp' = "save_failed") =>
         /\ main_pc' = "prompt"
         /\ UNCHANGED <<tree, rules, data, summary, nNodes>>
      ]_vars

\* C27: on every tree the programs build, the pair interpret returns is such
\* that lastVisited is absent exactly when the tree is empty, lastMatched is
\* absent or is lastVisited or a proper ancestor of it, and the slot revise
\* would write is free: lastVisited.right when the two are the same node,
\* lastVisited.left otherwise.
C27_InterpretPair ==
    \A r \in InterpretRuns :
        /\ (r.n1 = None) <=> (root = None)
        /\ \/ r.n2 = None
           \/ r.n2 = r.n1
           \/ r.n1 \in ReachableFrom(r.n2, left, right)
        /\ r.n1 # None =>
              IF r.n1 = r.n2 THEN right[r.n1] = None ELSE left[r.n1] = None

\* an interpret on the present tree has returned a lastMatched that is a
\* proper ancestor of lastVisited
C27_Witness ==
    /\ lastOp \in {"agree", "analyze"}
    /\ result[2] # None /\ result[1] # result[2]
    /\ \E r \in InterpretRuns : <<r.n1, r.n2>> = result
    /\ result[1] \in ReachableFrom(result[2], left, right)

\* two runs of interpret got the same value from llm_check_condition at
\* every node both of them evaluated
SameReturns(r1, r2) ==
    \A i \in DOMAIN r1.calls, j \in DOMAIN r2.calls :
        r1.calls[i][1] = r2.calls[j][1] => r1.calls[i][2] = r2.calls[j][2]

\* C28: a revision corrects the case that triggered it: after a
\* disagree-path revise of an engine inserted node N for a case, every
\* interpret of that case on the new tree in which the oracle answers the old
\* nodes as it did during the revise and evaluates N's conditions true
\* returns lastMatched = N.
C28_RevisionCorrectsCase ==
    [][Revised' =>
         LET N == nNodes'
         IN \A r \in InterpretRuns' :
               (/\ \A i \in DOMAIN calls', j \in DOMAIN r.calls :
                      calls'[i][1] = r.calls[j][1] => calls'[i][2] = r.calls[j][2]
                /\ \A j \in DOMAIN r.calls : r.calls[j][1] = N => r.calls[j][2])
               => r.n2 = N
      ]_vars

\* a revise has put its node below a node that did not match, under an
\* ancestor that did
C28_Witness ==
    /\ Revised /\ nNodes = 3
    /\ result[2] = 1 /\ result[1] = 2
    /\ left[2] = 3
    /\ \E r \in InterpretRuns : r.n2 = 3 /\ Len(r.calls) = 3

\* C29: an insertion by an engine's revise is local.  Take an interpret on
\* the old tree and one on the new tree with the same oracle answers: if the
\* old one did not end at n1 through the slot that was filled, the new one
\* returns the same pair; if it did, lastMatched is the same or the new node.
C29_InsertionIsLocal ==
    [][Revised' =>
         LET N == nNodes'
             n1 == result'[1]
             n2 == result'[2]
         IN \A ro \in InterpretRuns, rn \in InterpretRuns' :
               SameReturns(ro, rn) =>
                  IF ro.n1 = n1 /\ ((ro.n1 = ro.n2) <=> (n1 = n2))
                  THEN rn.n2 \in {ro.n2, N}
                  ELSE rn.n1 = ro.n1 /\ rn.n2 = ro.n2
      ]_vars

\* a revise has filled the left slot of a node whose right slot leads on, so
\* that some traversals pass the new node by
C29_Witness ==
    /\ Revised /\ nNodes = 3
    /\ result[1] = 1 /\ result[2] = None
    /\ left[1] = 3 /\ right[1] = 2

\* C30: once the first node has been inserted the root reference never
\* changes again, whatever revise call or Save New Rule click follows: the
\* root is absent or is the first node created.
C30_RootFixed ==
    [][/\ root # None => root' = root
       /\ root' \in {None, 1}]_vars

\* the app has saved three rules and the first is still the root
C30_Witness ==
    /\ program = "app" /\ lastOp = "save"
    /\ nNodes = 3 /\ root = 1
    /\ left[1] # None

\* C31: in the file engine every node's cornerstone list is non-empty; a
\* node is created with the one case of its revise call; the first element
\* of a list never changes; a revise call changes the list of lastMatched
\* only, on the agree path only, by appending one case; and the old case
\* given to differentiate is the first element of lastMatched's list.
C31_CornerstoneList ==
    [][(program = "file") =>
         /\ \A n \in 1..nNodes' : data'[n] # <<>>
         /\ \A n \in 1..nNodes :
               /\ data'[n][1] = data[n][1]
               /\ \/ data'[n] = data[n]
                  \/ /\ lastOp' = "agree" /\ n = result'[2]
                     /\ \E p \in files : data'[n] = Append(data[n], p)
         /\ nNodes' = nNodes + 1 => \E p \in files : data'[nNodes'] = <<p>>
         /\ (reference'.called /\ result'[2] # None)
               => reference'.path = data'[result'[2]][1]
      ]_vars

\* a differentiate call has compared against a node that was created for one
\* case and later took the other case on the agree path
C31_Witness ==
    /\ program = "file" /\ lastOp = "revise"
    /\ reference.called /\ result[2] # None
    /\ data[result[2]] = <<"b.json", "a.json">>
    /\ reference.path = "b.json"

\* C32: in the summary engine a revise whose summarize call fails (returns
\* an empty result) aborts before classification: it makes no evaluate, merge
\* or differentiate call, asks the clinician for nothing and leaves the tree
\* as it is; nothing of that revise follows.
C32_AbortBeforeClassification ==
    [][/\ (program = "summary" /\ pc = "idle" /\ new_patient_summary' = {})
          => /\ pc' = "aborted"
             /\ calls' = <<>>
             /\ merge_outcome' = "none"
             /\ ~reference'.called
             /\ UNCHANGED <<new_concl, conditions_list, selected_conditions>>
             /\ UNCHANGED <<tree, rules, data, summary, nNodes>>
       /\ pc # "aborted"
      ]_vars

\* a revise on a tree with nodes has been aborted
C32_Witness ==
    /\ program = "summary" /\ pc = "aborted"
    /\ new_patient_summary = {}
    /\ nNodes = 2 /\ right[root] = 2

\* the engine in memory as pickle would write it, and the engine a start
\* from the storage file would give
InMemory == Pickled(root, left, right, conditions, conclusions, data, summary,
                    nNodes)
Stored == LoadTree(storage).engine

\* C33: in the console main loop of the file engine every mutation is
\* followed by a save before the next case is read (a revise that changed the
\* tree goes to save_tree and from there to the prompt; on a disk that takes
\* every write the file holds the tree in memory whenever a case is read),
\* and the tree is saved once more on every way out of the loop: quit,
\* KeyboardInterrupt, or an error escaping revise or the prompt.
C33_SavedBeforeNextCase ==
    [][(program = "file") =>
         /\ (main_pc # "start" /\ InMemory' # InMemory) => main_pc' = "save"
         /\ (main_pc = "save")
               => /\ main_pc' = "prompt"
                  /\ lastOp' \in {"saved", "save_failed"}
                  /\ disk = "sound" => storage'.readable /\ Stored' = InMemory
         /\ (main_pc = "prompt" /\ disk = "sound") => Stored = InMemory
         /\ (main_pc' \in {"exited", "crashed"})
               => /\ lastOp' \in {"final_saved", "final_save_failed"}
                  /\ main_pc' = "exited" <=> lastOp \in {"quit", "interrupt",
                                                        "KeyboardInterrupt"}
                  /\ disk = "sound" => storage'.readable /\ Stored' = InMemory'
      ]_vars

\* a case was added to a cornerstone list and saved, then an error escaped
\* the loop and the tree was saved again
C33_Witness ==
    /\ program = "file" /\ disk = "sound"
    /\ main_pc = "crashed" /\ lastOp = "final_saved"
    /\ \E n \in 1..nNodes : Len(data[n]) = 2
    /\ storage.readable /\ storage.engine = InMemory

\* what one pass of the selection loop appended
Appended == SubSeq(selected_conditions', Len(selected_conditions) + 1,
                   Len(selected_conditions'))

\* C34: every condition stored in a new rule is an element of the candidate
\* list differentiate returned for this revision or a non-empty manual entry:
\* each pass of the selection loop keeps what was selected and appends only
\* the manual entry read, when it is not empty, or candidates whose number
\* on the line read is in 1..len(candidates) (0, negative and too large
\* numbers add nothing); a line with a token that is no number appends
\* nothing; and the rule of the node created holds exactly the list selected.
C34_OnlyCandidatesOrManual ==
    [][(program \in EnginePrograms /\ pc = "select") =>
         LET line == choice_str'
             n == Len(conditions_list)
         IN /\ Len(selected_conditions') >= Len(selected_conditions)
            /\ SubSeq(selected_conditions', 1, Len(selected_conditions))
                  = selected_conditions
            /\ \A x \in Range(Appended) :
                  /\ x # ""
                  /\ IF line.kind \in {"m", "manual"}
                     THEN x = line.entry
                     ELSE /\ line.kind = "nums"
                          /\ \E i \in 1..Len(line.tokens) :
                                /\ line.tokens[i].isInt
                                /\ line.tokens[i].val \in 1..n
                                /\ x = conditions_list[line.tokens[i].val]
            /\ (\E i \in 1..Len(line.tokens) : ~line.tokens[i].isInt)
                  => Appended = <<>>
            /\ pc' = "done"
                  => /\ nNodes' = nNodes + 1
                     /\ JsonLoads(conditions'[nNodes']) = selected_conditions'
                     /\ \A x \in Range(selected_conditions') : x # ""
      ]_vars

\* a line naming 0 and 2 on a list of two candidates took the second
C34_Witness ==
    /\ program \in EnginePrograms /\ pc = "select"
    /\ conditions_list = <<"fever", "cough">>
    /\ choice_str.kind = "nums"
    /\ choice_str.tokens = <<[isInt |-> TRUE, val |-> 0], [isInt |-> TRUE, val |-> 2]>>
    /\ selected_conditions = <<"cough">>

\* C2: Save New Rule never assigns a node to a child slot that already
\* holds one.
C2_NoOverwrite ==
    [][(program = "app" /\ lastOp' = "save") =>
        \A n \in NodeIds :
           /\ left'[n] # left[n] => left[n] = None
           /\ right'[n] # right[n] => right[n] = None]_vars

\* C3: Save New Rule on a non-empty tree with a stored result whose n1 is
\* absent is rejected: the tree is as before and nothing is raised.
C3_CleanReject ==
    [][(/\ program = "app"
        /\ lastOp' \in {"save", "save_rejected", "save_raised"}
        /\ root # None /\ result[1] = None) =>
          (/\ root' = root /\ left' = left /\ right' = right
           /\ lastOp' # "save_raised")]_vars

\* C7: no node has an empty conclusion.
C7_NoEmptyConclusion ==
    \A n \in 1..nNodes : conclusions[n] # ""

\* C8: every node has a non-empty condition list.
C8_NoEmptyConditions ==
    \A n \in 1..nNodes : JsonLoads(conditions[n]) # <<>>

\* C9: the condition list of a rule holds no condition twice.
C9_NoDuplicateConditions ==
    \A n \in 1..nNodes : NoDuplicates(JsonLoads(conditions[n]))

====
